---- MODULE Spec2Model ----
(***************************************************************************)
(* A model of the command-line contact manager pickle_cli_bot_module8.py:  *)
(* the Field value types, Record, AddressBook, the command handlers with   *)
(* their input_error wrapper, the pickle snapshot and the command loop.    *)
(*                                                                         *)
(* A Python str is a sequence of one-character strings.  A date is the    *)
(* tuple <<year, month, day>>.  None is NoneVal where a str may stand and  *)
(* <<>> where a Birthday may stand.  The AddressBook (a dict, which keeps  *)
(* insertion order) is a sequence of [key, rec] entries.                   *)
(***************************************************************************)
EXTENDS Integers, Sequences, FiniteSets, TLC

VARIABLES
    book,      \* the AddressBook of the running process
    file,      \* addressbook.pkl: [exists, data]
    pc,        \* "api" (handlers called directly) or the position of main()
    response,  \* what the last operation returned (or raised): [exc, text]
    upcoming,  \* what the last get_upcoming_birthdays call returned: [exc, text, entries]
    last       \* history: the last operation, its inputs and the book before it

vars == <<book, file, pc, response, upcoming, last>>

-----------------------------------------------------------------------------
(* Bounds of the model *)

\* no phone list grows beyond MaxPhones entries
MaxPhones == 2

-----------------------------------------------------------------------------
(* Characters and str operations *)

Digits == {"0", "1", "2", "3", "4", "5", "6", "7", "8", "9"}

\* the whitespace of str.split() and str.strip() that occurs in the inputs
Whitespace == {" ", "\t", "\n"}

DigitVal(c) ==
    CASE c = "0" -> 0 [] c = "1" -> 1 [] c = "2" -> 2 [] c = "3" -> 3
      [] c = "4" -> 4 [] c = "5" -> 5 [] c = "6" -> 6 [] c = "7" -> 7
      [] c = "8" -> 8 [] c = "9" -> 9

DigitChar(n) ==
    CASE n = 0 -> "0" [] n = 1 -> "1" [] n = 2 -> "2" [] n = 3 -> "3"
      [] n = 4 -> "4" [] n = 5 -> "5" [] n = 6 -> "6" [] n = 7 -> "7"
      [] n = 8 -> "8" [] n = 9 -> "9"

Min(S) == CHOOSE x \in S : \A y \in S : x <= y

Max(S) == CHOOSE x \in S : \A y \in S : x >= y

\* `sub in s`
Contains(s, sub) ==
    \E i \in 0..(Len(s) - Len(sub)) : SubSeq(s, i + 1, i + Len(sub)) = sub

\* the first position >= i of s that holds no whitespace (Len(s) + 1 if none)
SkipWs(s, i) ==
    Min({j \in i..(Len(s) + 1) : j = Len(s) + 1 \/ s[j] \notin Whitespace})

\* the first position >= i of s that holds whitespace (Len(s) + 1 if none)
TokenEnd(s, i) ==
    Min({j \in i..(Len(s) + 1) : j = Len(s) + 1 \/ s[j] \in Whitespace})

\* s.split(maxsplit=1): runs of whitespace separate, leading whitespace is
\* dropped, the remainder after the first separator is kept as it is
split_maxsplit1(s) ==
    LET a == SkipWs(s, 1) IN
    IF a > Len(s) THEN <<>>
    ELSE LET b == TokenEnd(s, a)
             c == SkipWs(s, b)
         IN  IF c > Len(s) THEN <<SubSeq(s, a, b - 1)>>
             ELSE <<SubSeq(s, a, b - 1), SubSeq(s, c, Len(s))>>

\* s.strip()
strip(s) ==
    LET a == SkipWs(s, 1) IN
    IF a > Len(s) THEN <<>>
    ELSE SubSeq(s, a, Max({j \in 1..Len(s) : s[j] \notin Whitespace}))

\* s.isdigit()
isdigit(s) == Len(s) > 0 /\ \A i \in 1..Len(s) : s[i] \in Digits

RECURSIVE int(_)
\* int(s) of a str of digits
int(s) ==
    IF s = <<>> THEN 0
    ELSE 10 * int(SubSeq(s, 1, Len(s) - 1)) + DigitVal(s[Len(s)])

RECURSIVE join(_, _)
\* sep.join(parts)
join(sep, parts) ==
    IF parts = <<>> THEN <<>>
    ELSE IF Len(parts) = 1 THEN parts[1]
    ELSE parts[1] \o sep \o join(sep, Tail(parts))

UpperLetters == <<"A", "B", "C", "D", "E", "F", "G", "H", "I", "J", "K", "L", "M", "N", "O", "P", "Q", "R", "S", "T", "U", "V", "W", "X", "Y", "Z">>

LowerLetters == <<"a", "b", "c", "d", "e", "f", "g", "h", "i", "j", "k", "l", "m", "n", "o", "p", "q", "r", "s", "t", "u", "v", "w", "x", "y", "z">>

LowerChar(c) ==
    IF \E k \in 1..Len(UpperLetters) : UpperLetters[k] = c
    THEN LowerLetters[CHOOSE k \in 1..Len(UpperLetters) : UpperLetters[k] = c]
    ELSE c

RECURSIVE lower(_)
\* s.lower()
lower(s) == IF s = <<>> THEN <<>> ELSE <<LowerChar(s[1])>> \o lower(Tail(s))

\* None, where a str may stand
NoneVal == <<"<None>">>

\* str(v) as an f-string formats it
Str(v) == IF v = NoneVal THEN <<"N", "o", "n", "e">> ELSE v

-----------------------------------------------------------------------------
(* Results: what a call returns or raises *)

Return(b, text) == [book |-> b, exc |-> "none", text |-> text]

Raise(b, exc, text) == [book |-> b, exc |-> exc, text |-> text]

MsgNoContact == <<"T", "h", "i", "s", " ", "c", "o", "n", "t", "a", "c", "t", " ", "d", "o", "e", "s", " ", "n", "o", "t", " ", "e", "x", "i", "s", "t", ".">>

MsgInsufficient == <<"I", "n", "s", "u", "f", "f", "i", "c", "i", "e", "n", "t", " ", "a", "r", "g", "u", "m", "e", "n", "t", "s", " ", "p", "r", "o", "v", "i", "d", "e", "d", ".">>

input_error_noValueError(r) ==
    CASE r.exc = "KeyError"   -> Return(r.book, MsgNoContact)
      [] r.exc = "IndexError" -> Return(r.book, MsgInsufficient)
      [] OTHER                -> r

\* the wrapper of the decorator, applied to the outcome r of the wrapped call
input_error(r) ==
    CASE r.exc = "KeyError"   -> Return(r.book, MsgNoContact)
      [] r.exc = "ValueError" -> Return(r.book, r.text)
      [] r.exc = "IndexError" -> Return(r.book, MsgInsufficient)
      [] OTHER                -> r

\* `a, b = parts` with Len(parts) = n < 2: the message of the ValueError
UnpackMsg(n) ==
    <<"n", "o", "t", " ", "e", "n", "o", "u", "g", "h", " ", "v", "a", "l", "u", "e", "s", " ", "t", "o", " ", "u", "n", "p", "a", "c", "k", " ", "(", "e", "x", "p", "e", "c", "t", "e", "d", " ", "2", ",", " ", "g", "o", "t", " ">> \o <<DigitChar(n)>> \o <<")">>

-----------------------------------------------------------------------------
(* Field value types *)

PhoneLen == 10

MsgTenDigits == <<"P", "h", "o", "n", "e", " ", "n", "u", "m", "b", "e", "r", " ", "m", "u", "s", "t", " ", "b", "e", " ", "e", "x", "a", "c", "t", "l", "y", " ", "1", "0", " ", "d", "i", "g", "i", "t", "s", ".">>

\* re.match(r'^\d{10}$', number): ten digits, and `$` also matches before
\* one trailing newline
Phone_validate(number) ==
    /\ \/ Len(number) = PhoneLen
       \/ Len(number) = PhoneLen + 1 /\ number[PhoneLen + 1] = "\n"
    /\ \A i \in 1..PhoneLen : number[i] \in Digits

IsLeap(y) == (y % 4 = 0 /\ y % 100 # 0) \/ y % 400 = 0

DaysInMonth(y, m) ==
    CASE m \in {1, 3, 5, 7, 8, 10, 12} -> 31
      [] m \in {4, 6, 9, 11}           -> 30
      [] m = 2                         -> IF IsLeap(y) THEN 29 ELSE 28

\* date(y, m, d) exists
ValidDate(y, m, d) ==
    /\ y \in 1..9999
    /\ m \in 1..12
    /\ d \in 1..DaysInMonth(y, m)

\* datetime.strptime(value, "%d.%m.%Y").date(): <<>> where it raises.  (%d
\* also takes a blank before a single digit; split() passes no such str.)
strptime(value) ==
    LET dots == {i \in 1..Len(value) : value[i] = "."} IN
    IF Cardinality(dots) # 2 THEN <<>>
    ELSE LET i1 == Min(dots)
             i2 == Max(dots)
             dd == SubSeq(value, 1, i1 - 1)
             mm == SubSeq(value, i1 + 1, i2 - 1)
             yy == SubSeq(value, i2 + 1, Len(value))
         IN  IF /\ isdigit(dd) /\ Len(dd) <= 2
                /\ isdigit(mm) /\ Len(mm) <= 2
                /\ isdigit(yy) /\ Len(yy) = 4
                /\ ValidDate(int(yy), int(mm), int(dd))
             THEN <<int(yy), int(mm), int(dd)>>
             ELSE <<>>

Birthday_validate(value) == strptime(value) # <<>>

MsgBadDate == <<"I", "n", "v", "a", "l", "i", "d", " ", "d", "a", "t", "e", " ", "f", "o", "r", "m", "a", "t", ".", " ", "U", "s", "e", " ", "D", "D", ".", "M", "M", ".", "Y", "Y", "Y", "Y">>

Pad2(n) == <<DigitChar(n \div 10), DigitChar(n % 10)>>

\* d.strftime("%d.%m.%Y")
date_to_string(d) ==
    Pad2(d[3]) \o <<".">> \o Pad2(d[2]) \o <<".">>
        \o Pad2(d[1] \div 100) \o Pad2(d[1] % 100)

-----------------------------------------------------------------------------
(* datetime.date arithmetic *)

RECURSIVE DaysBeforeMonth(_, _)
DaysBeforeMonth(y, m) ==
    IF m = 1 THEN 0 ELSE DaysBeforeMonth(y, m - 1) + DaysInMonth(y, m - 1)

\* d.toordinal()
toordinal(d) ==
    LET y == d[1] - 1 IN
    365 * y + (y \div 4) - (y \div 100) + (y \div 400)
        + DaysBeforeMonth(d[1], d[2]) + d[3]

\* d.weekday(): Monday is 0
weekday(d) == (toordinal(d) + 6) % 7

\* d + timedelta(days=1)
NextDay(d) ==
    IF d[3] < DaysInMonth(d[1], d[2]) THEN <<d[1], d[2], d[3] + 1>>
    ELSE IF d[2] < 12 THEN <<d[1], d[2] + 1, 1>>
    ELSE <<d[1] + 1, 1, 1>>

RECURSIVE AddDays(_, _)
\* d + timedelta(days=n)
AddDays(d, n) == IF n = 0 THEN d ELSE AddDays(NextDay(d), n - 1)

adjust_for_weekend_saturday_only(birthday) ==
    IF weekday(birthday) = 5 THEN AddDays(birthday, 2)
    ELSE birthday

adjust_for_weekend(birthday) ==
    IF weekday(birthday) = 5 THEN AddDays(birthday, 2)
    ELSE IF weekday(birthday) = 6 THEN AddDays(birthday, 1)
    ELSE birthday

MsgDayOutOfRange == <<"d", "a", "y", " ", "i", "s", " ", "o", "u", "t", " ", "o", "f", " ", "r", "a", "n", "g", "e", " ", "f", "o", "r", " ", "m", "o", "n", "t", "h">>

\* the loop body of get_upcoming_birthdays for one record: the entries it
\* appends, or the ValueError of date.replace
UpcomingOf(rec, today, days) ==
    IF rec.birthday = <<>> THEN [exc |-> "none", text |-> <<>>, entries |-> <<>>]
    ELSE IF ~ValidDate(today[1], rec.birthday[2], rec.birthday[3])
    THEN [exc |-> "ValueError", text |-> MsgDayOutOfRange, entries |-> <<>>]
    ELSE LET this_year == <<today[1], rec.birthday[2], rec.birthday[3]>> IN
         IF /\ toordinal(this_year) < toordinal(today)
            /\ ~ValidDate(today[1] + 1, rec.birthday[2], rec.birthday[3])
         THEN [exc |-> "ValueError", text |-> MsgDayOutOfRange, entries |-> <<>>]
         ELSE LET birthday_this_year ==
                      IF toordinal(this_year) < toordinal(today)
                      THEN <<today[1] + 1, rec.birthday[2], rec.birthday[3]>>
                      ELSE this_year
                  diff == toordinal(birthday_this_year) - toordinal(today)
              IN  IF 0 <= diff /\ diff <= days
                  THEN [exc |-> "none", text |-> <<>>,
                        entries |-> <<[name |-> rec.name,
                                       congratulation_date |->
                                           date_to_string(
                                               adjust_for_weekend(birthday_this_year))]>>]
                  ELSE [exc |-> "none", text |-> <<>>, entries |-> <<>>]

RECURSIVE get_upcoming_birthdays(_, _, _)
\* the records are visited in the order of the dict; an exception ends the call
get_upcoming_birthdays(b, today, days) ==
    IF b = <<>> THEN [exc |-> "none", text |-> <<>>, entries |-> <<>>]
    ELSE LET head == UpcomingOf(b[1].rec, today, days) IN
         IF head.exc # "none" THEN head
         ELSE LET rest == get_upcoming_birthdays(Tail(b), today, days) IN
              IF rest.exc # "none" THEN rest
              ELSE [exc |-> "none", text |-> <<>>,
                    entries |-> head.entries \o rest.entries]

-----------------------------------------------------------------------------
(* Record *)

Record(name) == [name |-> name, phones |-> <<>>, birthday |-> <<>>]

Record_add_phone_unchecked(rec, number) ==
    [rec  |-> [rec EXCEPT !.phones = Append(@, number)],
     text |-> <<"P", "h", "o", "n", "e", " ", "n", "u", "m", "b", "e", "r", " ", "'">> \o number \o <<"'", " ", "a", "d", "d", "e", "d", " ", "f", "o", "r", " ">> \o rec.name \o <<".">>]

Record_add_phone(rec, number) ==
    IF Phone_validate(number)
    THEN [rec  |-> [rec EXCEPT !.phones = Append(@, number)],
          text |-> <<"P", "h", "o", "n", "e", " ", "n", "u", "m", "b", "e", "r", " ", "'">> \o number \o <<"'", " ", "a", "d", "d", "e", "d", " ", "f", "o", "r", " ">>
                       \o rec.name \o <<".">>]
    ELSE [rec |-> rec, text |-> MsgTenDigits]

Record_remove_phone(rec, number) ==
    LET M == {i \in 1..Len(rec.phones) : rec.phones[i] = number} IN
    IF M = {}
    THEN [rec  |-> rec,
          text |-> <<"P", "h", "o", "n", "e", " ", "n", "u", "m", "b", "e", "r", " ", "'">> \o number \o <<"'", " ", "n", "o", "t", " ", "f", "o", "u", "n", "d", " ", "f", "o", "r", " ">>
                       \o rec.name \o <<".">>]
    ELSE LET i == Min(M) IN
         [rec  |-> [rec EXCEPT !.phones =
                       SubSeq(@, 1, i - 1) \o SubSeq(@, i + 1, Len(@))],
          text |-> <<"P", "h", "o", "n", "e", " ", "n", "u", "m", "b", "e", "r", " ", "'">> \o number \o <<"'", " ", "r", "e", "m", "o", "v", "e", "d", " ", "f", "o", "r", " ">>
                       \o rec.name \o <<".">>]

Record_edit_phone_last(rec, old_number, new_number) ==
    LET M == {i \in 1..Len(rec.phones) : rec.phones[i] = old_number} IN
    IF M = {}
    THEN [rec  |-> rec,
          text |-> <<"P", "h", "o", "n", "e", " ", "n", "u", "m", "b", "e", "r", " ", "'">> \o Str(old_number) \o <<"'", " ", "n", "o", "t", " ", "f", "o", "u", "n", "d", " ", "f", "o", "r", " ">>
                       \o rec.name \o <<".">>]
    ELSE IF Phone_validate(new_number)
    THEN [rec  |-> [rec EXCEPT !.phones[Max(M)] = new_number],
          text |-> <<"P", "h", "o", "n", "e", " ", "n", "u", "m", "b", "e", "r", " ", "'">> \o Str(old_number) \o <<"'", " ", "e", "d", "i", "t", "e", "d", " ", "t", "o", " ", "'">>
                       \o new_number \o <<"'", " ", "f", "o", "r", " ">> \o rec.name \o <<".">>]
    ELSE [rec |-> rec, text |-> MsgTenDigits]

Record_edit_phone(rec, old_number, new_number) ==
    LET M == {i \in 1..Len(rec.phones) : rec.phones[i] = old_number} IN
    IF M = {}
    THEN [rec  |-> rec,
          text |-> <<"P", "h", "o", "n", "e", " ", "n", "u", "m", "b", "e", "r", " ", "'">> \o Str(old_number) \o <<"'", " ", "n", "o", "t", " ", "f", "o", "u", "n", "d", " ", "f", "o", "r", " ">>
                       \o rec.name \o <<".">>]
    ELSE IF Phone_validate(new_number)
    THEN [rec  |-> [rec EXCEPT !.phones[Min(M)] = new_number],
          text |-> <<"P", "h", "o", "n", "e", " ", "n", "u", "m", "b", "e", "r", " ", "'">> \o Str(old_number) \o <<"'", " ", "e", "d", "i", "t", "e", "d", " ", "t", "o", " ", "'">>
                       \o new_number \o <<"'", " ", "f", "o", "r", " ">> \o rec.name \o <<".">>]
    ELSE [rec |-> rec, text |-> MsgTenDigits]

Record_add_birthday(rec, date_str) ==
    IF Birthday_validate(date_str)
    THEN [rec  |-> [rec EXCEPT !.birthday = strptime(date_str)],
          text |-> <<"B", "i", "r", "t", "h", "d", "a", "y", " ", "'">> \o date_str \o <<"'", " ", "s", "e", "t", " ", "f", "o", "r", " ">> \o rec.name \o <<".">>]
    ELSE [rec |-> rec, text |-> MsgBadDate]

Record_show_birthday(rec) ==
    IF rec.birthday # <<>> THEN date_to_string(rec.birthday)
    ELSE <<"N", "o", " ", "b", "i", "r", "t", "h", "d", "a", "y", " ", "s", "e", "t">>

\* [phone.value for phone in record.phones], comma-joined
PhonesStr(rec) == join(<<",", " ">>, rec.phones)

-----------------------------------------------------------------------------
(* AddressBook *)

Keys(b) == {b[i].key : i \in 1..Len(b)}

\* find(name): the position of the record stored under name, 0 for None
find(b, name) ==
    IF name \in Keys(b) THEN CHOOSE i \in 1..Len(b) : b[i].key = name ELSE 0

\* the record at position i mutated in place
SetRec(b, i, rec) == [b EXCEPT ![i].rec = rec]

\* self.data[record.name.value] = record
add_record(b, rec) ==
    IF find(b, rec.name) # 0 THEN [b EXCEPT ![find(b, rec.name)].rec = rec]
    ELSE Append(b, [key |-> rec.name, rec |-> rec])

-----------------------------------------------------------------------------
(* Command handlers *)

MsgRecordNotFound == <<"R", "e", "c", "o", "r", "d", " ", "n", "o", "t", " ", "f", "o", "u", "n", "d", ".">>

add_contact_raw_always_store(args, b) ==
    LET parts == split_maxsplit1(args) IN
    IF Len(parts) # 2 THEN Raise(b, "ValueError", UnpackMsg(Len(parts)))
    ELSE LET name  == parts[1]
             phone == parts[2]
             i     == find(b, name)
         IN  IF i # 0
             THEN LET r == Record_add_phone(b[i].rec, phone) IN
                  Return(SetRec(b, i, r.rec), r.text)
             ELSE LET r == Record_add_phone(Record(name), phone) IN
                  Return(add_record(b, r.rec),
                         <<"N", "e", "w", " ", "c", "o", "n", "t", "a", "c", "t", " ", "'">> \o name \o <<"'", " ", "a", "d", "d", "e", "d", " ", "w", "i", "t", "h", " ", "p", "h", "o", "n", "e", " ", "n", "u", "m", "b", "e", "r", " ", "'">>
                             \o phone \o <<"'", ".", "\n">> \o r.text)

add_contact_raw(args, b) ==
    LET parts == split_maxsplit1(args) IN
    IF Len(parts) # 2 THEN Raise(b, "ValueError", UnpackMsg(Len(parts)))
    ELSE LET name  == parts[1]
             phone == parts[2]
             i     == find(b, name)
         IN  IF i # 0
             THEN LET r == Record_add_phone(b[i].rec, phone) IN
                  Return(SetRec(b, i, r.rec), r.text)
             ELSE LET r == Record_add_phone(Record(name), phone) IN
                  IF Contains(r.text, MsgTenDigits) THEN Return(b, r.text)
                  ELSE Return(add_record(b, r.rec),
                              <<"N", "e", "w", " ", "c", "o", "n", "t", "a", "c", "t", " ", "'">> \o name
                                  \o <<"'", " ", "a", "d", "d", "e", "d", " ", "w", "i", "t", "h", " ", "p", "h", "o", "n", "e", " ", "n", "u", "m", "b", "e", "r", " ", "'">>
                                  \o phone \o <<"'", ".", "\n">> \o r.text)

add_contact(args, b) == input_error(add_contact_raw(args, b))

change_phone_raw(args, b) ==
    LET parts == split_maxsplit1(args) IN
    IF Len(parts) # 2 THEN Raise(b, "ValueError", UnpackMsg(Len(parts)))
    ELSE LET name  == parts[1]
             phone == parts[2]
             i     == find(b, name)
         IN  IF i # 0
             THEN LET old_phone == IF b[i].rec.phones # <<>>
                                   THEN b[i].rec.phones[1] ELSE NoneVal
                      r == Record_edit_phone(b[i].rec, old_phone, phone)
                  IN  Return(SetRec(b, i, r.rec), r.text)
             ELSE Return(b, MsgRecordNotFound)

change_phone(args, b) == input_error(change_phone_raw(args, b))

show_phone_raw(args, b) ==
    LET name == strip(args)
        i    == find(b, name)
    IN  IF i # 0
        THEN Return(b, name \o <<"'", "s", " ", "p", "h", "o", "n", "e", " ", "n", "u", "m", "b", "e", "r", "(", "s", ")", ":", " ">> \o PhonesStr(b[i].rec))
        ELSE Return(b, MsgRecordNotFound)

show_phone(args, b) == input_error(show_phone_raw(args, b))

add_birthday_raw(args, b) ==
    LET parts == split_maxsplit1(args) IN
    IF Len(parts) # 2 THEN Raise(b, "ValueError", UnpackMsg(Len(parts)))
    ELSE LET name     == parts[1]
             birthday == parts[2]
             i        == find(b, name)
         IN  IF i # 0
             THEN LET r == Record_add_birthday(b[i].rec, birthday) IN
                  Return(SetRec(b, i, r.rec), r.text)
             ELSE Return(b, MsgRecordNotFound)

add_birthday(args, b) == input_error(add_birthday_raw(args, b))

show_birthday_raw(args, b) ==
    LET name == strip(args)
        i    == find(b, name)
    IN  IF i # 0
        THEN Return(b, name \o <<"'", "s", " ", "b", "i", "r", "t", "h", "d", "a", "y", " ", "i", "s", " ">>
                           \o Record_show_birthday(b[i].rec) \o <<".">>)
        ELSE Return(b, MsgRecordNotFound)

show_birthday(args, b) == input_error(show_birthday_raw(args, b))

DefaultDays == 7

RECURSIVE EntryLines(_)
EntryLines(entries) ==
    IF entries = <<>> THEN <<>>
    ELSE entries[1].name \o <<":", " ">> \o entries[1].congratulation_date \o <<"\n">>
             \o EntryLines(Tail(entries))

\* today is what date.today() returns inside get_upcoming_birthdays
birthdays_raw(args, b, today) ==
    LET days == IF isdigit(strip(args)) THEN int(strip(args)) ELSE DefaultDays
        u    == get_upcoming_birthdays(b, today, days)
    IN  IF u.exc # "none" THEN Raise(b, u.exc, u.text)
        ELSE IF u.entries = <<>> THEN Return(b, <<"N", "o", " ", "u", "p", "c", "o", "m", "i", "n", "g", " ", "b", "i", "r", "t", "h", "d", "a", "y", "s", ".">>)
        ELSE Return(b, strip(<<"U", "p", "c", "o", "m", "i", "n", "g", " ", "b", "i", "r", "t", "h", "d", "a", "y", "s", ":", "\n">> \o EntryLines(u.entries)))

birthdays(args, b, today) == input_error(birthdays_raw(args, b, today))

RECURSIVE AllLines(_)
\* one "name: phones\n" line per contact
AllLines(b) ==
    IF b = <<>> THEN <<>>
    ELSE b[1].key \o <<":", " ">> \o PhonesStr(b[1].rec) \o <<"\n">> \o AllLines(Tail(b))

show_all_contacts(b) ==
    IF b = <<>> THEN <<"N", "o", " ", "c", "o", "n", "t", "a", "c", "t", "s", " ", "i", "n", " ", "a", "d", "d", "r", "e", "s", "s", " ", "b", "o", "o", "k", ".">>
    ELSE strip(<<"A", "l", "l", " ", "c", "o", "n", "t", "a", "c", "t", "s", ":", "\n">> \o AllLines(b))

-----------------------------------------------------------------------------
(* Inputs of the model *)

Bob == <<"B", "o", "b">>

Ann == <<"A", "n", "n">>

Zed == <<"Z", "e", "d">>

P1 == <<"1", "1", "1", "1", "1", "1", "1", "1", "1", "1">>

P2 == <<"2", "2", "2", "2", "2", "2", "2", "2", "2", "2">>

\* phone arguments: accepted ones, and ones that are too short, too long or
\* hold a letter
ApiPhones ==
    {P1, P2, P1 \o <<"\n">>, <<"1", "1", "1", "1", "1", "1", "1", "1", "1">>, <<"1", "1", "1", "1", "1", "1", "1", "1", "1", "1", "1">>, <<"1", "1", "1", "1", "1", "1", "1", "1", "1", "a">>}

\* what the phone lists of the model hold
StoredPhones == {P1, P2, P1 \o <<"\n">>}

ApiAddArgs ==
    {Bob \o <<" ">> \o p : p \in ApiPhones}
        \cup {Ann \o <<" ">> \o P1, Ann \o <<" ">> \o P1 \o <<" ">>,
              Bob \o <<"\t", "\t">> \o P2, <<>>, Bob, <<" ", "B", "o", "b", " ">>}

ApiChangeArgs ==
    {Bob \o <<" ">> \o p : p \in ApiPhones}
        \cup {Zed \o <<" ">> \o P1, <<>>, Bob, <<" ", "B", "o", "b", "\t">>}

ApiBirthdayArgs ==
    {<<"B", "o", "b", " ", "1", "5", ".", "0", "6", ".", "1", "9", "9", "0">>, <<"B", "o", "b", " ", "3", "1", ".", "0", "4", ".", "2", "0", "0", "0">>, <<"Z", "e", "d", " ", "1", "5", ".", "0", "6", ".", "1", "9", "9", "0">>, <<>>, Bob, <<"B", "o", "b", "\n">>}

ApiShowArgs == {Bob, <<" ", "A", "n", "n", "\t">>, Zed}

NoDate == <<1, 1, 1>>

Hist(op, name, a, b) ==
    [op |-> op, name |-> name, a |-> a, b |-> b, pre |-> book,
     today |-> NoDate, days |-> 0]

NoResponse == [exc |-> "none", text |-> <<>>]

NoUpcoming == [exc |-> "none", text |-> <<>>, entries |-> <<>>]

NoFile == [exists |-> FALSE, data |-> <<>>]

\* the model's bound on the phone lists
PhonesBounded(b) == \A i \in 1..Len(b) : Len(b[i].rec.phones) <= MaxPhones

-----------------------------------------------------------------------------
(* The handlers and the Record methods, called directly *)

Init ==
    /\ book = <<>>
    /\ file = NoFile
    /\ pc = "api"
    /\ response = NoResponse
    /\ upcoming = NoUpcoming
    /\ last = [op |-> "init", name |-> <<>>, a |-> <<>>, b |-> <<>>,
               pre |-> <<>>, today |-> NoDate, days |-> 0]

\* a handler call: r is what it returned
Handled(op, args, r) ==
    /\ PhonesBounded(r.book)
    /\ book' = r.book
    /\ response' = [exc |-> r.exc, text |-> r.text]
    /\ upcoming' = NoUpcoming
    /\ last' = Hist(op, <<>>, args, <<>>)
    /\ UNCHANGED <<file, pc>>

AddContact(args) == pc = "api" /\ Handled("add_contact", args, add_contact(args, book))

ChangePhone(args) == pc = "api" /\ Handled("change_phone", args, change_phone(args, book))

AddBirthday(args) == pc = "api" /\ Handled("add_birthday", args, add_birthday(args, book))

ShowPhone(args) == pc = "api" /\ Handled("show_phone", args, show_phone(args, book))

\* a Record method called on the record stored under name: r is [rec, text]
Method(op, name, a, b, r) ==
    /\ Len(r.rec.phones) <= MaxPhones
    /\ book' = SetRec(book, find(book, name), r.rec)
    /\ response' = [exc |-> "none", text |-> r.text]
    /\ upcoming' = NoUpcoming
    /\ last' = Hist(op, name, a, b)
    /\ UNCHANGED <<file, pc>>

RecAddPhone(name, number) ==
    /\ pc = "api"
    /\ find(book, name) # 0
    /\ Method("add_phone", name, number, <<>>,
              Record_add_phone(book[find(book, name)].rec, number))

RecEditPhone(name, old, new) ==
    /\ pc = "api"
    /\ find(book, name) # 0
    /\ Method("edit_phone", name, old, new,
              Record_edit_phone(book[find(book, name)].rec, old, new))

RecRemovePhone(name, number) ==
    /\ pc = "api"
    /\ find(book, name) # 0
    /\ Method("remove_phone", name, number, <<>>,
              Record_remove_phone(book[find(book, name)].rec, number))

Next ==
    \/ \E args \in ApiAddArgs : AddContact(args)
    \/ \E args \in ApiChangeArgs : ChangePhone(args)
    \/ \E args \in ApiBirthdayArgs : AddBirthday(args)
    \/ \E args \in ApiShowArgs : ShowPhone(args)
    \/ \E number \in ApiPhones : RecAddPhone(Bob, number)
    \/ \E old \in StoredPhones, new \in {P1, P2, <<"1", "1", "1", "1", "1", "1", "1", "1", "1", "a">>} :
           RecEditPhone(Bob, old, new)
    \/ \E number \in StoredPhones : RecRemovePhone(Bob, number)

Spec == Init /\ [][Next]_vars

-----------------------------------------------------------------------------
(* Claims about the handlers and the Record methods *)

\* a str of exactly ten decimal digits
TenDigits(s) == Len(s) = 10 /\ \A i \in 1..Len(s) : s[i] \in Digits

\* C1: every Phone value stored in every Record of the AddressBook is a
\* string of exactly 10 decimal digits, nothing before, after or between.
C1_AllPhonesTenDigits ==
    \A i \in 1..Len(book) :
        \A j \in 1..Len(book[i].rec.phones) : TenDigits(book[i].rec.phones[j])

\* the number of whitespace-separated tokens of s
NumTokens(s) ==
    Cardinality({i \in 1..Len(s) :
        s[i] \notin Whitespace /\ (i = 1 \/ s[i - 1] \in Whitespace)})

\* C2: add_contact, change_phone and add_birthday, given an argument string
\* of fewer than two tokens, return exactly "Insufficient arguments
\* provided." and leave the AddressBook unchanged.
C2_InsufficientArguments ==
    (/\ last.op \in {"add_contact", "change_phone", "add_birthday"}
     /\ NumTokens(last.a) < 2)
        => /\ response = [exc |-> "none", text |-> MsgInsufficient]
           /\ book = last.pre

\* the name and the phone of the last handler call (two tokens given)
ArgName == split_maxsplit1(last.a)[1]

ArgPhone == split_maxsplit1(last.a)[2]

TwoArgs == Len(split_maxsplit1(last.a)) = 2

\* C3: add_contact(name, phone).  An existing record gets the phone appended
\* when Phone accepts it and is unchanged when not; for a new name a rejected
\* phone returns only the validation message and stores nothing, an accepted
\* one stores exactly one record [phone] without birthday under name.  Every
\* other record is unchanged.
C3_AddContactEffect ==
    (last.op = "add_contact" /\ TwoArgs) =>
        LET i == find(last.pre, ArgName) IN
        /\ (i # 0 /\ Phone_validate(ArgPhone)) =>
               book = [last.pre EXCEPT ![i].rec.phones = Append(@, ArgPhone)]
        /\ (i # 0 /\ ~Phone_validate(ArgPhone)) => book = last.pre
        /\ (i = 0 /\ ~Phone_validate(ArgPhone)) =>
               /\ book = last.pre
               /\ response = [exc |-> "none", text |-> MsgTenDigits]
        /\ (i = 0 /\ Phone_validate(ArgPhone)) =>
               book = Append(last.pre,
                             [key |-> ArgName,
                              rec |-> [name |-> ArgName, phones |-> <<ArgPhone>>,
                                       birthday |-> <<>>]])

\* a new contact was stored next to an existing one
C3_Witness ==
    /\ last.op = "add_contact" /\ TwoArgs
    /\ Len(last.pre) = 1
    /\ Len(book) = 2
    /\ book[2].rec.phones = <<ArgPhone>>

\* the parts of C4 that hold: the effect of change_phone on the phone list
C4_ListEffect ==
    LET i   == find(last.pre, ArgName)
        old == last.pre[i].rec.phones
    IN  /\ (old # <<>> /\ Phone_validate(ArgPhone)) =>
               /\ book = [last.pre EXCEPT ![i].rec.phones[1] = ArgPhone]
               /\ Contains(show_phone(ArgName, book).text, ArgPhone)
        /\ (old # <<>> /\ ~Phone_validate(ArgPhone)) =>
               /\ book = last.pre
               /\ response = [exc |-> "none", text |-> MsgTenDigits]
        /\ old = <<>> =>
               /\ book = last.pre
               /\ Contains(response.text, <<"n", "o", "t", " ", "f", "o", "u", "n", "d">>)

C4_Case == last.op = "change_phone" /\ TwoArgs /\ find(last.pre, ArgName) # 0

\* C4 as claimed: after change_phone(name, new) with an accepted new on a
\* non-empty list, position 0 holds new, the rest of the list is unchanged,
\* show_phone(name) contains new and no longer contains the old first
\* number; a rejected new leaves the list unchanged and returns the
\* validation message; an empty list stays empty with a "not found" message.
C4_Original ==
    C4_Case =>
        LET old == last.pre[find(last.pre, ArgName)].rec.phones IN
        /\ C4_ListEffect
        /\ (old # <<>> /\ Phone_validate(ArgPhone)) =>
               ~Contains(show_phone(ArgName, book).text, old[1])

\* C4 as amended: show_phone(name) no longer contains the old first number
\* provided that number is not part of new, of another phone of the list or
\* of the name; the rest as claimed.
C4_ChangePhoneEffect ==
    C4_Case =>
        LET old == last.pre[find(last.pre, ArgName)].rec.phones IN
        /\ C4_ListEffect
        /\ (/\ old # <<>> /\ Phone_validate(ArgPhone)
            /\ ~Contains(ArgPhone, old[1])
            /\ ~Contains(ArgName, old[1])
            /\ \A j \in 2..Len(old) : ~Contains(old[j], old[1]))
               => ~Contains(show_phone(ArgName, book).text, old[1])

\* the first of two different phones was replaced and is no longer shown
C4_Witness ==
    /\ C4_Case
    /\ last.pre[find(last.pre, ArgName)].rec.phones = <<P1, P2>>
    /\ book[find(book, ArgName)].rec.phones = <<P2, P2>>
    /\ ~Contains(show_phone(ArgName, book).text, P1)

-----------------------------------------------------------------------------
(* The upcoming-birthday query on books built by add_contact (of new names) *)
(* and add_birthday                                                        *)

\* the largest window of the query
MaxDays == 7

BdayAddArgs == {Bob \o <<" ">> \o P1, Ann \o <<" ">> \o P2}

BdayDates ==
    {<<"1", "5", ".", "0", "6", ".", "1", "9", "9", "0">>, <<"2", "9", ".", "0", "2", ".", "2", "0", "0", "0">>, <<"3", "1", ".", "1", "2", ".", "1", "9", "9", "9">>, <<"6", ".", "1", ".", "1", "9", "9", "9">>,
     <<"3", "1", ".", "0", "4", ".", "2", "0", "0", "0">>}

BdayArgs == {n \o <<" ">> \o d : n \in {Bob, Ann}, d \in BdayDates}

\* reference dates: a Monday and a Saturday in June 2024, the last Saturday
\* of 2023, and days before and after the end of February in 2023 and 2024
Todays ==
    {<<2024, 6, 10>>, <<2024, 6, 15>>, <<2023, 12, 30>>, <<2023, 2, 25>>,
     <<2024, 2, 25>>, <<2024, 3, 1>>}

GetUpcoming(today, days) ==
    /\ pc = "api"
    /\ upcoming' = get_upcoming_birthdays(book, today, days)
    /\ response' = NoResponse
    /\ last' = [Hist("get_upcoming_birthdays", <<>>, <<>>, <<>>)
                   EXCEPT !.today = today, !.days = days]
    /\ UNCHANGED <<book, file, pc>>

NextBday ==
    \/ \E args \in BdayAddArgs :
           find(book, split_maxsplit1(args)[1]) = 0 /\ AddContact(args)
    \/ \E args \in BdayArgs : AddBirthday(args)
    \/ \E today \in Todays, days \in 0..MaxDays : GetUpcoming(today, days)

SpecBday == Init /\ [][NextBday]_vars

-----------------------------------------------------------------------------
(* Claims about the upcoming-birthday query *)

\* the records of the book the last query ran on
QueriedRecs == {last.pre[i].rec : i \in 1..Len(last.pre)}

\* the next occurrence of the birthday bd is n days after the reference date
OccursIn(bd, today, n) ==
    LET day == AddDays(today, n) IN day[2] = bd[2] /\ day[3] = bd[3]

\* C5: get_upcoming_birthdays returns exactly one entry for each record
\* whose next birthday occurrence is 0..window_days days after the reference
\* date, and no entry for any other record.
C5_ExactlyTheUpcoming ==
    last.op = "get_upcoming_birthdays" =>
        /\ upcoming.exc = "none"
        /\ \A rec \in QueriedRecs :
               LET n == Cardinality({k \in 1..Len(upcoming.entries) :
                                        upcoming.entries[k].name = rec.name})
               IN  IF /\ rec.birthday # <<>>
                      /\ \E d \in 0..last.days :
                             OccursIn(rec.birthday, last.today, d)
                   THEN n = 1 ELSE n = 0
        /\ \A k \in 1..Len(upcoming.entries) :
               \E rec \in QueriedRecs : upcoming.entries[k].name = rec.name

\* the birthday bd projected onto the reference year, or onto the following
\* year if that date is before the reference date
Projected(bd, today) ==
    IF toordinal(<<today[1], bd[2], bd[3]>>) < toordinal(today)
    THEN <<today[1] + 1, bd[2], bd[3]>>
    ELSE <<today[1], bd[2], bd[3]>>

\* the congratulation date of an entry, read back from its text
CongratulationDate(entry) == strptime(entry.congratulation_date)

\* the birthday of the record an entry names
BirthdayOf(entry) ==
    (CHOOSE rec \in QueriedRecs : rec.name = entry.name).birthday

\* C6: the congratulation date of every returned entry is the projected
\* birthday d on Monday-Friday, d + 2 on a Saturday and d + 1 on a Sunday;
\* it is no Saturday or Sunday, not before the reference date and at most
\* window_days + 2 days after it.
C6_CongratulationDate ==
    (last.op = "get_upcoming_birthdays" /\ upcoming.exc = "none") =>
        \A k \in 1..Len(upcoming.entries) :
            LET e    == upcoming.entries[k]
                d    == Projected(BirthdayOf(e), last.today)
                c    == CongratulationDate(e)
                late == toordinal(c) - toordinal(last.today)
            IN  /\ c # <<>>
                /\ weekday(d) < 5 => c = d
                /\ weekday(d) = 5 => toordinal(c) = toordinal(d) + 2
                /\ weekday(d) = 6 => toordinal(c) = toordinal(d) + 1
                /\ weekday(c) \notin {5, 6}
                /\ 0 <= late /\ late <= last.days + 2

\* a Sunday birthday and a Saturday birthday on the last day of the window
\* are both listed, the latter two days beyond the window
C6_Witness ==
    /\ last.op = "get_upcoming_birthdays" /\ upcoming.exc = "none"
    /\ Len(upcoming.entries) = 2
    /\ \E k \in 1..2 :
           /\ weekday(Projected(BirthdayOf(upcoming.entries[k]), last.today)) = 5
           /\ toordinal(CongratulationDate(upcoming.entries[k]))
                  - toordinal(last.today) = last.days + 2
    /\ \E k \in 1..2 :
           weekday(Projected(BirthdayOf(upcoming.entries[k]), last.today)) = 6

-----------------------------------------------------------------------------
(* Persistence and the command loop *)

RECURSIVE Pickled(_)
\* the pickled object graph: per dict item the key and the record's fields
Pickled(b) ==
    IF b = <<>> THEN <<>>
    ELSE <<<<b[1].key, b[1].rec.name, b[1].rec.phones, b[1].rec.birthday>>>>
             \o Pickled(Tail(b))

RECURSIVE Unpickled(_)
Unpickled(data) ==
    IF data = <<>> THEN <<>>
    ELSE <<[key |-> data[1][1],
            rec |-> [name |-> data[1][2], phones |-> data[1][3],
                     birthday |-> data[1][4]]]>>
             \o Unpickled(Tail(data))

save_data_first_phone_only(b) ==
    [exists |-> TRUE,
     data   |-> Pickled([i \in 1..Len(b) |->
                    [b[i] EXCEPT !.rec.phones = SubSeq(@, 1, 1)]])]

\* save_data(book): the file afterwards
save_data(b) == [exists |-> TRUE, data |-> Pickled(b)]

\* load_data(): an empty AddressBook when the file is missing
load_data(f) == IF f.exists THEN Unpickled(f.data) ELSE <<>>

\* user_input.split(' ', 1): cut at the first blank
parse_input(user_input) ==
    LET blanks == {i \in 1..Len(user_input) : user_input[i] = " "} IN
    IF blanks = {}
    THEN [command |-> lower(user_input), args |-> <<>>]
    ELSE [command |-> lower(SubSeq(user_input, 1, Min(blanks) - 1)),
          args    |-> SubSeq(user_input, Min(blanks) + 1, Len(user_input))]

MsgInvalidCommand == <<"I", "n", "v", "a", "l", "i", "d", " ", "c", "o", "m", "m", "a", "n", "d", ".">>

\* the lines typed at the prompt
Lines ==
    {<<"a", "d", "d", " ", "B", "o", "b", " ", "1", "1", "1", "1", "1", "1", "1", "1", "1", "1">>, <<"A", "D", "D", " ", " ", "A", "n", "n", " ", "2", "2", "2", "2", "2", "2", "2", "2", "2", "2">>, <<"a", "d", "d", "\t", "B", "o", "b", " ", "1", "1", "1", "1", "1", "1", "1", "1", "1", "1">>,
     <<"A", "d", "d", " ", "B", "o", "b", " ", "1", "2", "3">>, <<"a", "d", "d", " ", "B", "o", "b">>,
     <<"c", "h", "a", "n", "g", "e", " ", "B", "o", "b", " ", "2", "2", "2", "2", "2", "2", "2", "2", "2", "2">>, <<"c", "h", "a", "n", "g", "e", " ", "Z", "e", "d", " ", "1", "1", "1", "1", "1", "1", "1", "1", "1", "1">>, <<"c", "h", "a", "n", "g", "e", " ", "B", "o", "b", " ", "1", "2">>,
     <<"c", "h", "a", "n", "g", "e", " ">>,
     <<"p", "h", "o", "n", "e", " ", "B", "o", "b">>, <<"a", "l", "l">>, <<"h", "e", "l", "l", "o">>,
     <<"a", "d", "d", "-", "b", "i", "r", "t", "h", "d", "a", "y", " ", "B", "o", "b", " ", "2", "9", ".", "0", "2", ".", "2", "0", "0", "0">>, <<"a", "d", "d", "-", "b", "i", "r", "t", "h", "d", "a", "y", " ", "B", "o", "b", " ", "3", "1", ".", "0", "4", ".", "2", "0", "0", "0">>,
     <<"a", "d", "d", "-", "b", "i", "r", "t", "h", "d", "a", "y", " ", "Z", "e", "d", " ", "1", "5", ".", "0", "6", ".", "1", "9", "9", "0">>, <<"a", "d", "d", "-", "b", "i", "r", "t", "h", "d", "a", "y">>,
     <<"s", "h", "o", "w", "-", "b", "i", "r", "t", "h", "d", "a", "y", " ", "B", "o", "b">>, <<"b", "i", "r", "t", "h", "d", "a", "y", "s">>, <<"b", "i", "r", "t", "h", "d", "a", "y", "s", " ", "3">>, <<"b", "i", "r", "t", "h", "d", "a", "y", "s", " ", "x">>,
     <<"c", "l", "o", "s", "e">>, <<"E", "X", "I", "T", " ", "n", "o", "w">>, <<"e", "x", "i", "t", "\t", "n", "o", "w">>, <<" ", "e", "x", "i", "t">>, <<>>}

\* parse_input of every line
Parsed == [line \in Lines |-> parse_input(line)]

\* what date.today() may return while the loop runs
LoopTodays == {<<2024, 2, 26>>, <<2023, 6, 12>>}

InitLoop ==
    /\ book = <<>>
    /\ file = NoFile
    /\ pc = "start"
    /\ response = NoResponse
    /\ upcoming = NoUpcoming
    /\ last = [op |-> "init", name |-> <<>>, a |-> <<>>, b |-> <<>>,
               pre |-> <<>>, today |-> NoDate, days |-> 0]

\* main() up to the prompt: a first run, or a new run after the last one ended
Start ==
    /\ pc \in {"start", "done", "crashed"}
    /\ book' = load_data(file)
    /\ pc' = "loop"
    /\ response' = [exc |-> "none", text |-> <<"W", "e", "l", "c", "o", "m", "e", " ", "t", "o", " ", "t", "h", "e", " ", "a", "s", "s", "i", "s", "t", "a", "n", "t", " ", "b", "o", "t", "!">>]
    /\ last' = [op |-> "load_data", name |-> <<>>, a |-> <<>>, b |-> <<>>,
                pre |-> <<>>, today |-> NoDate, days |-> 0]
    /\ UNCHANGED <<file, upcoming>>

\* the history of one turn of the loop: the line, the command and the args
Turn(line, today) ==
    [op |-> "main", name |-> Parsed[line].command, a |-> line,
     b |-> Parsed[line].args, pre |-> <<>>, today |-> today, days |-> 0]

\* one turn of the loop that calls a handler: r is what the handler returned
\* or raised; an exception that leaves the handler ends the process
Dispatched(line, today, r) ==
    /\ PhonesBounded(r.book)
    /\ book' = r.book
    /\ response' = [exc |-> r.exc, text |-> r.text]
    /\ pc' = IF r.exc = "none" THEN "loop" ELSE "crashed"
    /\ last' = Turn(line, today)
    /\ UNCHANGED <<file, upcoming>>

MainClose ==
    /\ pc = "loop"
    /\ \E line \in Lines :
           /\ Parsed[line].command \in {<<"c", "l", "o", "s", "e">>, <<"e", "x", "i", "t">>}
           /\ file' = save_data(book)
           /\ pc' = "done"
           /\ response' = [exc |-> "none", text |-> <<"G", "o", "o", "d", " ", "b", "y", "e", "!">>]
           /\ last' = Turn(line, NoDate)
           /\ UNCHANGED <<book, upcoming>>

MainHello ==
    /\ pc = "loop"
    /\ \E line \in Lines :
           /\ Parsed[line].command = <<"h", "e", "l", "l", "o">>
           /\ Dispatched(line, NoDate, Return(book, <<"H", "o", "w", " ", "c", "a", "n", " ", "I", " ", "h", "e", "l", "p", " ", "y", "o", "u", "?">>))

MainAdd ==
    /\ pc = "loop"
    /\ \E line \in Lines :
           /\ Parsed[line].command = <<"a", "d", "d">>
           /\ Dispatched(line, NoDate, add_contact(Parsed[line].args, book))

MainChange ==
    /\ pc = "loop"
    /\ \E line \in Lines :
           /\ Parsed[line].command = <<"c", "h", "a", "n", "g", "e">>
           /\ Dispatched(line, NoDate, change_phone(Parsed[line].args, book))

MainPhone ==
    /\ pc = "loop"
    /\ \E line \in Lines :
           /\ Parsed[line].command = <<"p", "h", "o", "n", "e">>
           /\ Dispatched(line, NoDate, show_phone(Parsed[line].args, book))

MainAll ==
    /\ pc = "loop"
    /\ \E line \in Lines :
           /\ Parsed[line].command = <<"a", "l", "l">>
           /\ Dispatched(line, NoDate, Return(book, show_all_contacts(book)))

MainAddBirthday ==
    /\ pc = "loop"
    /\ \E line \in Lines :
           /\ Parsed[line].command = <<"a", "d", "d", "-", "b", "i", "r", "t", "h", "d", "a", "y">>
           /\ Dispatched(line, NoDate, add_birthday(Parsed[line].args, book))

MainShowBirthday ==
    /\ pc = "loop"
    /\ \E line \in Lines :
           /\ Parsed[line].command = <<"s", "h", "o", "w", "-", "b", "i", "r", "t", "h", "d", "a", "y">>
           /\ Dispatched(line, NoDate, show_birthday(Parsed[line].args, book))

MainBirthdays ==
    /\ pc = "loop"
    /\ \E line \in Lines, today \in LoopTodays :
           /\ Parsed[line].command = <<"b", "i", "r", "t", "h", "d", "a", "y", "s">>
           /\ Dispatched(line, today, birthdays(Parsed[line].args, book, today))

\* the commands main() compares the command token with
Commands ==
    {<<"c", "l", "o", "s", "e">>, <<"e", "x", "i", "t">>, <<"h", "e", "l", "l", "o">>, <<"a", "d", "d">>, <<"c", "h", "a", "n", "g", "e">>, <<"p", "h", "o", "n", "e">>, <<"a", "l", "l">>,
     <<"a", "d", "d", "-", "b", "i", "r", "t", "h", "d", "a", "y">>, <<"s", "h", "o", "w", "-", "b", "i", "r", "t", "h", "d", "a", "y">>, <<"b", "i", "r", "t", "h", "d", "a", "y", "s">>}

MainInvalid ==
    /\ pc = "loop"
    /\ \E line \in Lines :
           /\ Parsed[line].command \notin Commands
           /\ Dispatched(line, NoDate, Return(book, MsgInvalidCommand))

NextLoop ==
    \/ Start
    \/ MainClose
    \/ MainHello
    \/ MainAdd
    \/ MainChange
    \/ MainPhone
    \/ MainAll
    \/ MainAddBirthday
    \/ MainShowBirthday
    \/ MainBirthdays
    \/ MainInvalid

SpecLoop == InitLoop /\ [][NextLoop]_vars

-----------------------------------------------------------------------------
(* Claims about persistence and the command loop *)

\* the same names, and per name the same phone list and the same birthday
SameContacts(b1, b2) ==
    /\ Keys(b1) = Keys(b2)
    /\ \A k \in Keys(b1) :
           /\ b1[find(b1, k)].rec.phones = b2[find(b2, k)].rec.phones
           /\ b1[find(b1, k)].rec.birthday = b2[find(b2, k)].rec.birthday

\* C7: the book loaded at the start of the session after a close or exit has
\* the names, phone lists and birthdays of the book at that exit, and the
\* snapshot is written at no other point than the exit.
C7_SnapshotRoundTrip ==
    [][/\ (pc = "done" /\ pc' = "loop") => SameContacts(book', book)
       /\ file' # file => (pc = "loop" /\ pc' = "done")]_vars

\* a session started from a snapshot of two contacts, one with two phones
\* and a birthday
C7_Witness ==
    /\ last.op = "load_data"
    /\ file.exists
    /\ Len(book) = 2
    /\ \E i \in 1..2 : Len(book[i].rec.phones) = 2 /\ book[i].rec.birthday # <<>>

\* C8: every line whose command is not close or exit is answered with one
\* text and the loop goes on, no exception leaves a handler, and the loop
\* ends if and only if close or exit is read.
C8_LoopSurvivesErrors ==
    /\ pc # "crashed"
    /\ last.op = "main" =>
           /\ (last.name \in {<<"c", "l", "o", "s", "e">>, <<"e", "x", "i", "t">>}) <=> (pc = "done")
           /\ (last.name \notin {<<"c", "l", "o", "s", "e">>, <<"e", "x", "i", "t">>}) =>
                  /\ pc = "loop"
                  /\ response.exc = "none"
                  /\ response.text # <<>>

\* the ValueError of date.replace inside the birthdays query was answered as
\* text and the loop went on
C8_Witness ==
    /\ last.op = "main"
    /\ last.name = <<"b", "i", "r", "t", "h", "d", "a", "y", "s">>
    /\ response = [exc |-> "none", text |-> MsgDayOutOfRange]
    /\ pc = "loop"

\* the text of a line before its first run of whitespace, lower-cased
TokenOf(line) == lower(SubSeq(line, 1, TokenEnd(line, 1) - 1))

\* the text of a line after its first run of whitespace
RestOf(line) == SubSeq(line, SkipWs(line, TokenEnd(line, 1)), Len(line))

\* C9: the command token is the text before the first run of whitespace,
\* lower-cased, the argument string is everything after that run, and the
\* line is answered "Invalid command." exactly when the token is no
\* recognized command.
C9_ParseAndDispatch ==
    last.op = "main" =>
        /\ last.name = TokenOf(last.a)
        /\ last.b = RestOf(last.a)
        /\ (response.text = MsgInvalidCommand) <=> (TokenOf(last.a) \notin Commands)

\* C10: through the command loop every record is stored under its own name
\* and has at least one phone, the number of contacts never decreases within
\* a session, and change_phone never meets a record without phones.
C10_LoopRecords ==
    /\ [](\A i \in 1..Len(book) :
              /\ book[i].key = book[i].rec.name
              /\ Len(book[i].rec.phones) >= 1)
    /\ [](~Contains(response.text, <<"'", "N", "o", "n", "e", "'", " ", "n", "o", "t", " ", "f", "o", "u", "n", "d">>))
    /\ [][pc = "loop" => Len(book') >= Len(book)]_vars

\* change replaced the first phone of a contact in a book of two
C10_Witness ==
    /\ last.op = "main"
    /\ last.name = <<"c", "h", "a", "n", "g", "e">>
    /\ Contains(response.text, <<"e", "d", "i", "t", "e", "d", " ", "t", "o">>)
    /\ Len(book) = 2

====
